---- MODULE Spec2Model ----
(***************************************************************************)
(* State-machine model of SVGViewport (ui-core/src/graph/SVGViewport.tsx): *)
(* the viewport state {x, y, scale, minScale, isClickHeld}, the zoom and   *)
(* autocenter commands, the amator-driven smoothZoom animation, and the    *)
(* PanAndZoom / None interactors with their document-level listeners.      *)
(*                                                                         *)
(* JavaScript numbers are modelled as exact rationals <<n, d>> (d > 0, in  *)
(* lowest terms), so that the divisions of screenToSVGCoords are computed  *)
(* and not approximated.  <<0, 0>> stands for an omitted (undefined)       *)
(* argument.  setState is modelled as an immediate merge into this.state,  *)
(* and as a no-op once the component has unmounted.                        *)
(***************************************************************************)
EXTENDS Integers, Sequences, FiniteSets, TLC

(***************************************************************************)
(* Exact rational arithmetic.                                              *)
(***************************************************************************)
Abs(n) == IF n < 0 THEN -n ELSE n

RECURSIVE GCD(_, _)
GCD(a, b) == IF b = 0 THEN a ELSE GCD(b, a % b)

Rat(n, d) ==
  LET g == GCD(Abs(n), Abs(d))
      s == IF d < 0 THEN -1 ELSE 1
  IN  <<(s * n) \div g, (s * d) \div g>>

Int2R(n) == <<n, 1>>
None == <<0, 0>>
Zero == <<0, 1>>
One == <<1, 1>>

\* operands are reduced before they are multiplied, to keep the integers small
Add(a, b) ==
  LET g == GCD(a[2], b[2])
  IN  Rat(a[1] * (b[2] \div g) + b[1] * (a[2] \div g), (a[2] \div g) * b[2])
Neg(a) == <<-a[1], a[2]>>
Sub(a, b) == Add(a, Neg(b))
Mul(a, b) ==
  LET g1 == GCD(Abs(a[1]), b[2])
      g2 == GCD(Abs(b[1]), a[2])
  IN  Rat((a[1] \div g1) * (b[1] \div g2), (a[2] \div g2) * (b[2] \div g1))
Div(a, b) == Mul(a, IF b[1] < 0 THEN <<-b[2], -b[1]>> ELSE <<b[2], b[1]>>)
Lt(a, b) ==
  LET g == GCD(a[2], b[2])
  IN  a[1] * (b[2] \div g) < b[1] * (a[2] \div g)
Le(a, b) == ~Lt(b, a)
RMin(a, b) == IF Lt(b, a) THEN b ELSE a
RMax(a, b) == IF Lt(a, b) THEN b ELSE a
RAbs(a) == <<Abs(a[1]), a[2]>>
\* Math.floor on a rational
Floor(a) == a[1] \div a[2]
\* Math.round(v * 100) / 100 (round half up), the zoom-in button's rounding;
\* Number.EPSILON is below the resolution of every value of the model.
Round2(a) == Rat(Floor(Add(Mul(a, Int2R(100)), <<1, 2>>)), 100)
\* JavaScript truthiness of a (possibly omitted) number: undefined and 0 are falsy
Falsy(a) == a[1] = 0

(***************************************************************************)
(* Module constants of SVGViewport.tsx.                                    *)
(***************************************************************************)
DETAIL_ZOOM == <<3, 4>>
DEFAULT_ZOOM == <<3, 4>>
DEFAULT_MAX_AUTOCENTER_ZOOM == <<1, 1>>
DEFAULT_MIN_ZOOM == <<17, 100>>
DEFAULT_MAX_ZOOM == <<6, 5>>
BUTTON_INCREMENT == <<1, 20>>
panSpeed == <<7, 10>>
\* the delay of the tooltip's setTimeout (2000 ms), in seconds
HintSeconds == 2

(***************************************************************************)
(* Bounds of the model.                                                    *)
(***************************************************************************)
MaxSteps == 3           \* operations in a behaviour of Spec
MaxCommandSteps == 2    \* operations in a behaviour of SpecCommands
MaxZoomSteps == 3       \* operations in a behaviour of SpecZoom
MaxPointerSteps == 5    \* operations in a behaviour of SpecPointer
MaxAnims == 2           \* animations started in a behaviour
MaxDrags == 2           \* onMouseDown closures alive at a time
DurationInFrames == 2   \* amator's durationInFrames (24 at 400ms)
MaxSizeSteps == 1       \* operations in a behaviour of SpecSizes
MaxHintSteps == 4       \* operations in a behaviour of SpecHint
MaxInertSteps == 3      \* operations in a behaviour of SpecInert
MaxCoordSteps == 2      \* operations in a behaviour of SpecCoords

(***************************************************************************)
(* Inputs: the props the host may pass, the container sizes, and the       *)
(* arguments of commands and events.                                       *)
(***************************************************************************)
\* SVGViewport.defaultProps: the values React fills in for props the host omits
defaultProps == [maxZoom |-> DEFAULT_ZOOM, maxAutocenterZoom |-> DEFAULT_MAX_AUTOCENTER_ZOOM]

\* the props as the host passes them (None: omitted), with the container's size
HostProps ==
  { [graphWidth |-> 400, graphHeight |-> 300, graphHasNoMinimumZoom |-> FALSE,
     defaultZoom |-> "zoom-to-fit", maxZoom |-> DEFAULT_MAX_ZOOM,
     maxAutocenterZoom |-> DEFAULT_MAX_AUTOCENTER_ZOOM, interactor |-> "PanAndZoom",
     width |-> 800, height |-> 600],
    [graphWidth |-> 1000, graphHeight |-> 400, graphHasNoMinimumZoom |-> TRUE,
     defaultZoom |-> "zoom-to-fit", maxZoom |-> DEFAULT_MAX_ZOOM,
     maxAutocenterZoom |-> DEFAULT_MAX_AUTOCENTER_ZOOM, interactor |-> "PanAndZoom",
     width |-> 100, height |-> 80],
    [graphWidth |-> 1000, graphHeight |-> 400, graphHasNoMinimumZoom |-> FALSE,
     defaultZoom |-> "zoom-to-fit-width", maxZoom |-> DEFAULT_MAX_ZOOM,
     maxAutocenterZoom |-> DEFAULT_MAX_AUTOCENTER_ZOOM, interactor |-> "PanAndZoom",
     width |-> 100, height |-> 80],
    [graphWidth |-> 400, graphHeight |-> 300, graphHasNoMinimumZoom |-> FALSE,
     defaultZoom |-> "zoom-to-fit", maxZoom |-> None,
     maxAutocenterZoom |-> None, interactor |-> "None",
     width |-> 800, height |-> 600] }

\* this.props: the host's props with defaultProps applied; hostMaxZoom keeps
\* what the host passed
WithDefaultProps(h) ==
  [graphWidth |-> h.graphWidth, graphHeight |-> h.graphHeight,
   graphHasNoMinimumZoom |-> h.graphHasNoMinimumZoom, defaultZoom |-> h.defaultZoom,
   maxZoom |-> IF h.maxZoom = None THEN defaultProps.maxZoom ELSE h.maxZoom,
   maxAutocenterZoom |-> IF h.maxAutocenterZoom = None THEN defaultProps.maxAutocenterZoom
                         ELSE h.maxAutocenterZoom,
   interactor |-> h.interactor, width |-> h.width, height |-> h.height,
   hostMaxZoom |-> h.maxZoom]

\* SVGViewportProps together with the size of the container element
Configs == {WithDefaultProps(h) : h \in HostProps}

\* content and container sizes for the zoom limits
GraphWidths == {100, 1000, 3000}
GraphHeights == {100, 400}
ContainerSizes == {<<100, 80>>, <<800, 600>>, <<2000, 50>>}
SizeProps ==
  { [graphWidth |-> gw, graphHeight |-> gh, graphHasNoMinimumZoom |-> nm,
     defaultZoom |-> dz, maxZoom |-> DEFAULT_MAX_ZOOM, maxAutocenterZoom |-> None,
     interactor |-> "PanAndZoom", width |-> c[1], height |-> c[2]] :
    gw \in GraphWidths, gh \in GraphHeights, nm \in BOOLEAN,
    dz \in {"zoom-to-fit", "zoom-to-fit-width"}, c \in ContainerSizes }
SizeConfigs == {WithDefaultProps(h) : h \in SizeProps}

AutocenterScales == {None, <<2, 1>>}
ZoomScales == {None, <<2, 1>>}
BoxScales == {None}
CoordScales == {None, <<1, 10>>, <<1, 2>>, <<2, 1>>}
AdjustScales == {<<1, 20>>}
Boxes == {[x |-> 0, y |-> 0, width |-> 100, height |-> 100]}
Pt(x, y) == [x |-> Int2R(x), y |-> Int2R(y)]
WorldPoints == {Pt(50, 20)}
ScreenPoints == {Pt(0, 0)}
\* pointer positions of mouse events, relative to the container (getOffsetXY)
MousePoints == {Pt(3, 0), Pt(10, 0), Pt(40, 30)}
SliderScales == {<<1, 2>>}
WheelEvents ==
  { [mod |-> FALSE, shiftKey |-> FALSE, inZoomControl |-> FALSE, deltaX |-> 10,
     deltaY |-> -20, deltaMode |-> "pixel", pt |-> Pt(400, 300)],
    [mod |-> FALSE, shiftKey |-> TRUE, inZoomControl |-> FALSE, deltaX |-> 0,
     deltaY |-> 10, deltaMode |-> "pixel", pt |-> Pt(400, 300)],
    [mod |-> TRUE, shiftKey |-> FALSE, inZoomControl |-> FALSE, deltaX |-> 0,
     deltaY |-> -10, deltaMode |-> "line", pt |-> Pt(0, 0)],
    [mod |-> TRUE, shiftKey |-> FALSE, inZoomControl |-> FALSE, deltaX |-> 0,
     deltaY |-> 50, deltaMode |-> "pixel", pt |-> Pt(400, 300)],
    [mod |-> FALSE, shiftKey |-> FALSE, inZoomControl |-> TRUE, deltaX |-> 0,
     deltaY |-> 20, deltaMode |-> "pixel", pt |-> Pt(0, 0)] }

\* wheel events on a target outside the container
OutsideWheelEvents == {e \in WheelEvents : e.pt = Pt(400, 300) /\ ~e.shiftKey}

\* wheel events with shift held and a horizontal delta
ShiftedWheelEvents ==
  { [mod |-> FALSE, shiftKey |-> TRUE, inZoomControl |-> FALSE, deltaX |-> 5,
     deltaY |-> -10, deltaMode |-> "pixel", pt |-> Pt(40, 30)],
    [mod |-> TRUE, shiftKey |-> TRUE, inZoomControl |-> FALSE, deltaX |-> 0,
     deltaY |-> 20, deltaMode |-> "pixel", pt |-> Pt(40, 30)] }

VARIABLES
  props,        \* this.props and the container's client size
  phase,        \* "constructed", "mounted" (element.current set) or "unmounted"
  state,        \* this.state
  animation,    \* this._animation: 0 for null, else the index of a handle in anims
  anims,        \* the animations created by amator's animate(), in creation order
  wheelListener,\* the document 'wheel' listener of componentDidMount
  drags,        \* the closures of onMouseDown with their document listeners
  last,         \* history: the operation that produced this state, and its inputs
  steps,        \* history: number of operations so far
  budget,       \* the number of operations of a behaviour
  rendered,     \* the phase and the state that the latest render() read
  tooltip       \* WheelInstructionTooltip: its state and timer, and the wheel history

vars == <<props, phase, state, animation, anims, wheelListener, drags, last, steps,
          budget, rendered, tooltip>>

\* React's setState: merge the patch into this.state; ignored once unmounted
setState(ph, st, patch) ==
  IF ph # "mounted" THEN st
  ELSE [x |-> IF "x" \in DOMAIN patch THEN patch.x ELSE st.x,
        y |-> IF "y" \in DOMAIN patch THEN patch.y ELSE st.y,
        scale |-> IF "scale" \in DOMAIN patch THEN patch.scale ELSE st.scale,
        minScale |-> IF "minScale" \in DOMAIN patch THEN patch.minScale ELSE st.minScale,
        isClickHeld |-> IF "isClickHeld" \in DOMAIN patch THEN patch.isClickHeld
                        ELSE st.isClickHeld]

getMaxZoom(p) == p.maxZoom

scaleForSVGBounds(p, svgRegionWidth, svgRegionHeight) ==
  LET dw == Rat(p.width, svgRegionWidth)
      dh == Rat(p.height, svgRegionHeight)
  IN  RMin(dw, dh)

\* mutant: the larger of the default minimum and the fit scale
getMinZoom_Larger(p) ==
  IF p.graphHasNoMinimumZoom
  THEN RMax(DEFAULT_MIN_ZOOM, scaleForSVGBounds(p, p.graphWidth, p.graphHeight))
  ELSE DEFAULT_MIN_ZOOM

getMinZoom(p) ==
  IF p.graphHasNoMinimumZoom
  THEN RMin(DEFAULT_MIN_ZOOM, scaleForSVGBounds(p, p.graphWidth, p.graphHeight))
  ELSE DEFAULT_MIN_ZOOM

\* mutant: the offset removed but the result not divided by the scale
screenToSVGCoords_NotScaled(p, st, pt) ==
  LET width == Int2R(p.width)
      height == Int2R(p.height)
      two == Int2R(2)
  IN  [x |-> Sub(Add(Neg(Sub(st.x, Div(width, two))), pt.x), Div(width, two)),
       y |-> Sub(Add(Neg(Sub(st.y, Div(height, two))), pt.y), Div(height, two))]

screenToSVGCoords(p, st, pt) ==
  LET width == Int2R(p.width)
      height == Int2R(p.height)
      two == Int2R(2)
  IN  [x |-> Div(Sub(Add(Neg(Sub(st.x, Div(width, two))), pt.x), Div(width, two)), st.scale),
       y |-> Div(Sub(Add(Neg(Sub(st.y, Div(height, two))), pt.y), Div(height, two)), st.scale)]

\* the transform of render(): matrix(scale, 0, 0, scale, x, y) applied to a world point
renderTransform(st, w) ==
  [x |-> Add(Mul(w.x, st.scale), st.x), y |-> Add(Mul(w.y, st.scale), st.y)]

\* mutant: the far corner taken as the near corner plus the container's size
getViewport_Unscaled(p, ph, st) ==
  IF ph # "mounted" THEN [top |-> Zero, left |-> Zero, right |-> Zero, bottom |-> Zero]
  ELSE LET width == Int2R(p.width)
           height == Int2R(p.height)
       IN  [left |-> Div(Neg(st.x), st.scale),
            top |-> Div(Neg(st.y), st.scale),
            right |-> Add(Div(Neg(st.x), st.scale), width),
            bottom |-> Add(Div(Neg(st.y), st.scale), height)]

\* ph = "mounted" stands for element.current being set
getViewport(p, ph, st) ==
  IF ph # "mounted" THEN [top |-> Zero, left |-> Zero, right |-> Zero, bottom |-> Zero]
  ELSE LET width == Int2R(p.width)
           height == Int2R(p.height)
       IN  [left |-> Div(Neg(st.x), st.scale),
            top |-> Div(Neg(st.y), st.scale),
            right |-> Div(Add(Neg(st.x), width), st.scale),
            bottom |-> Div(Add(Neg(st.y), height), st.scale)]

\* getMinZoom() while element.current is null: scaleForSVGBounds returns 1
getMinZoomNoElement(p) ==
  IF p.graphHasNoMinimumZoom THEN RMin(DEFAULT_MIN_ZOOM, One) ELSE DEFAULT_MIN_ZOOM

\* render(): the transform of the content, the region passed to the children
\* callback, the cursor, and the range of the interactor's zoom slider
render(p, ph, st) ==
  [transform |-> [scale |-> st.scale, x |-> st.x, y |-> st.y],
   viewport |-> getViewport(p, ph, st),
   cursor |-> IF st.isClickHeld THEN "grabbing" ELSE "grab",
   sliderMin |-> IF p.interactor # "PanAndZoom" THEN None
                 ELSE IF ph = "mounted" THEN getMinZoom(p) ELSE getMinZoomNoElement(p),
   sliderMax |-> IF p.interactor # "PanAndZoom" THEN None ELSE getMaxZoom(p)]

(***************************************************************************)
(* amator's animate(): a handle whose frames are requested one at a time   *)
(* (raf) and whose completion callback is queued with a zero-delay timer   *)
(* after the last frame (timer).  cancel() withdraws the frame request.    *)
(***************************************************************************)
InFlight(a) == a.raf \/ a.timer

\* history: the command that started an animation, with the world point and
\* the scale it asked for
NoBy == [op |-> "", pt |-> Pt(0, 0), scale |-> None]

cancel(as, id) == IF id = 0 THEN as ELSE [as EXCEPT ![id].raf = FALSE]

\* history: mark the animations that are in flight when a command acts
RECURSIVE MarkSmoothUpTo(_, _)
MarkSmoothUpTo(as, n) ==
  IF n = 0 THEN <<>>
  ELSE Append(MarkSmoothUpTo(as, n - 1),
              IF InFlight(as[n]) THEN [as[n] EXCEPT !.hSmooth = TRUE] ELSE as[n])
MarkSmooth(as) == MarkSmoothUpTo(as, Len(as))

RECURSIVE MarkCmdUpTo(_, _)
MarkCmdUpTo(as, n) ==
  IF n = 0 THEN <<>>
  ELSE Append(MarkCmdUpTo(as, n - 1),
              IF InFlight(as[n]) THEN [as[n] EXCEPT !.hCmd = TRUE] ELSE as[n])
MarkCmd(as) == MarkCmdUpTo(as, Len(as))

\* the centre of the container on the screen, and of the content in the world
Centre == [x |-> Rat(props.width, 2), y |-> Rat(props.height, 2)]
GraphCentre == [x |-> Rat(props.graphWidth, 2), y |-> Rat(props.graphHeight, 2)]

\* A "world" W is the part of the component that commands read and write.
World == [state |-> state, animation |-> animation, anims |-> anims]

smoothZoom(W, to) ==
  LET from == [scale |-> W.state.scale, x |-> W.state.x, y |-> W.state.y]
      cancelled == IF W.animation # 0 THEN cancel(W.anims, W.animation) ELSE W.anims
      handle == [from |-> from, to |-> to, frame |-> 0, raf |-> TRUE, timer |-> FALSE,
                 hSmooth |-> FALSE, hCmd |-> FALSE, hCancel |-> FALSE, hBy |-> NoBy]
  IN  [state |-> W.state,
       animation |-> Len(cancelled) + 1,
       anims |-> Append(cancelled, handle)]

\* the values autocenter computes before it acts
autocenterDesiredScale(p) ==
  IF p.defaultZoom = "zoom-to-fit-width"
  THEN Rat(p.width, p.graphWidth)
  ELSE scaleForSVGBounds(p, p.graphWidth, p.graphHeight)

autocenterBoundedScale(p, scale) ==
  IF ~Falsy(scale) THEN scale
  ELSE RMax(RMin(autocenterDesiredScale(p), p.maxAutocenterZoom), getMinZoom(p))

\* mutant: the early return without the test that the target is the minimum zoom
autocenterSkips_AnyTarget(p, st, scale) ==
  LET desiredScale == autocenterDesiredScale(p)
      boundedScale == autocenterBoundedScale(p, scale)
  IN  /\ Lt(st.scale, boundedScale)
      /\ desiredScale # boundedScale

\* mutant: the early return with the comparison of the scales reversed
autocenterSkips_Reversed(p, st, scale) ==
  LET desiredScale == autocenterDesiredScale(p)
      minScale == getMinZoom(p)
      boundedScale == autocenterBoundedScale(p, scale)
  IN  /\ Lt(boundedScale, st.scale)
      /\ desiredScale # boundedScale
      /\ boundedScale = minScale

autocenterSkips(p, st, scale) ==
  LET desiredScale == autocenterDesiredScale(p)
      minScale == getMinZoom(p)
      boundedScale == autocenterBoundedScale(p, scale)
  IN  /\ Lt(st.scale, boundedScale)
      /\ desiredScale # boundedScale
      /\ boundedScale = minScale

\* mutant: the target offset computed from the full content size
autocenterTarget_NotHalved(p, scale) ==
  LET boundedScale == autocenterBoundedScale(p, scale)
  IN  [x |-> Add(Mul(Neg(Int2R(p.graphWidth)), boundedScale), Rat(p.width, 2)),
       y |-> Add(Mul(Neg(Int2R(p.graphHeight)), boundedScale), Rat(p.height, 2)),
       scale |-> boundedScale]

autocenterTarget(p, scale) ==
  LET boundedScale == autocenterBoundedScale(p, scale)
  IN  [x |-> Add(Mul(Neg(Rat(p.graphWidth, 2)), boundedScale), Rat(p.width, 2)),
       y |-> Add(Mul(Neg(Rat(p.graphHeight, 2)), boundedScale), Rat(p.height, 2)),
       scale |-> boundedScale]

autocenter(p, ph, W, animate, scale) ==
  LET target == autocenterTarget(p, scale)
  IN  IF autocenterSkips(p, W.state, scale) THEN W
      ELSE IF animate THEN smoothZoom(W, target)
      ELSE [W EXCEPT !.state = setState(ph, W.state,
               [x |-> target.x, y |-> target.y, scale |-> target.scale,
                minScale |-> target.scale])]

shiftXY(ph, st, dx, dy) ==
  setState(ph, st, [x |-> Add(st.x, dx), y |-> Add(st.y, dy), scale |-> st.scale])

\* mutant: the offset correction with the two scales exchanged
adjustZoomRelativeToScreenPoint_Exchanged(p, ph, st, nextScale, point) ==
  LET centerSVGCoord == screenToSVGCoords(p, st, point)
      scale == st.scale
      x == Add(st.x, Sub(Mul(centerSVGCoord.x, nextScale), Mul(centerSVGCoord.x, scale)))
      y == Add(st.y, Sub(Mul(centerSVGCoord.y, nextScale), Mul(centerSVGCoord.y, scale)))
  IN  setState(ph, st, [x |-> x, y |-> y, scale |-> nextScale])

adjustZoomRelativeToScreenPoint(p, ph, st, nextScale, point) ==
  LET centerSVGCoord == screenToSVGCoords(p, st, point)
      scale == st.scale
      x == Add(st.x, Sub(Mul(centerSVGCoord.x, scale), Mul(centerSVGCoord.x, nextScale)))
      y == Add(st.y, Sub(Mul(centerSVGCoord.y, scale), Mul(centerSVGCoord.y, nextScale)))
  IN  setState(ph, st, [x |-> x, y |-> y, scale |-> nextScale])

\* mutant: the requested scale used without the clamp to the zoom limits
zoomToSVGCoords_Unclamped(p, ph, W, x, y, animate, scaleArg) ==
  LET scale == IF scaleArg = None THEN W.state.scale ELSE scaleArg
      boundedScale == scale
      nx == Add(Mul(Neg(x), boundedScale), Rat(p.width, 2))
      ny == Add(Mul(Neg(y), boundedScale), Rat(p.height, 2))
      to == [x |-> nx, y |-> ny, scale |-> boundedScale]
  IN  IF animate THEN smoothZoom(W, to)
      ELSE [W EXCEPT !.state = setState(ph, W.state, to)]

zoomToSVGCoords(p, ph, W, x, y, animate, scaleArg) ==
  LET scale == IF scaleArg = None THEN W.state.scale ELSE scaleArg
      boundedScale == RMax(RMin(getMaxZoom(p), scale), getMinZoom(p))
      nx == Add(Mul(Neg(x), boundedScale), Rat(p.width, 2))
      ny == Add(Mul(Neg(y), boundedScale), Rat(p.height, 2))
      to == [x |-> nx, y |-> ny, scale |-> boundedScale]
  IN  IF animate THEN smoothZoom(W, to)
      ELSE [W EXCEPT !.state = setState(ph, W.state, to)]

\* mutant: the requested scale passed on without the switch to the maximum zoom
zoomToSVGBox_NoToggle(p, ph, W, box, animate, newScaleArg) ==
  LET newScale == IF newScaleArg = None THEN W.state.scale ELSE newScaleArg
  IN  zoomToSVGCoords(p, ph, W,
        Add(Int2R(box.x), Rat(box.width, 2)),
        Add(Int2R(box.y), Rat(box.height, 2)),
        animate,
        newScale)

zoomToSVGBox(p, ph, W, box, animate, newScaleArg) ==
  LET newScale == IF newScaleArg = None THEN W.state.scale ELSE newScaleArg
  IN  zoomToSVGCoords(p, ph, W,
        Add(Int2R(box.x), Rat(box.width, 2)),
        Add(Int2R(box.y), Rat(box.height, 2)),
        animate,
        IF newScale = getMinZoom(p) THEN getMaxZoom(p) ELSE newScale)

\* Math.sqrt(v) > n for v >= 0 and n >= 0
SqrtGt(v, n) == v > n * n

(***************************************************************************)
(* PanAndZoomInteractor                                                    *)
(***************************************************************************)
\* onMove of every closure whose mousemove listener is attached, in the order
\* the listeners were added; each reads the state the previous one wrote.
RECURSIVE onMoveAll(_, _, _, _, _)
\* mutant: the translation is the screen delta times the scale
onMoveAll_Scaled(ph, st, ds, i, offset) ==
  IF i > Len(ds) THEN [state |-> st, drags |-> ds]
  ELSE IF ~ds[i].moveUp \/ ph # "mounted" THEN onMoveAll(ph, st, ds, i + 1, offset)
  ELSE LET d == ds[i]
           delta == [x |-> Sub(offset.x, d.lastX), y |-> Sub(offset.y, d.lastY)]
           st2 == setState(ph, st, [x |-> Add(st.x, Mul(delta.x, st.scale)),
                                    y |-> Add(st.y, Mul(delta.y, st.scale))])
           d2 == [d EXCEPT !.travelX = Add(d.travelX, RAbs(delta.x)),
                           !.travelY = Add(d.travelY, RAbs(delta.y)),
                           !.lastX = offset.x, !.lastY = offset.y]
       IN  onMoveAll(ph, st2, [ds EXCEPT ![i] = d2], i + 1, offset)

\* the onMove of every closure whose mousemove listener is attached
onMoveAll(ph, st, ds, i, offset) ==
  IF i > Len(ds) THEN [state |-> st, drags |-> ds]
  ELSE IF ~ds[i].moveUp \/ ph # "mounted" THEN onMoveAll(ph, st, ds, i + 1, offset)
  ELSE LET d == ds[i]
           delta == [x |-> Sub(offset.x, d.lastX), y |-> Sub(offset.y, d.lastY)]
           st2 == setState(ph, st, [x |-> Add(st.x, delta.x), y |-> Add(st.y, delta.y)])
           d2 == [d EXCEPT !.travelX = Add(d.travelX, RAbs(delta.x)),
                           !.travelY = Add(d.travelY, RAbs(delta.y)),
                           !.lastX = offset.x, !.lastY = offset.y]
       IN  onMoveAll(ph, st2, [ds EXCEPT ![i] = d2], i + 1, offset)

onCancelClick(d) == SqrtGt(Floor(Add(d.travelX, d.travelY)), 5)

\* closures that hold neither a listener nor a timer are unreachable garbage
Live(ds) == SelectSeq(ds, LAMBDA d : d.moveUp \/ d.click \/ d.timer)

wheelZoomSpeed(e) ==
  IF e.deltaMode = "line" THEN <<1, 20>>
  ELSE IF Abs(e.deltaY) > 30 THEN <<1, 500>>
  ELSE <<1, 100>>

wheelCursorPosition(p, e) ==
  IF ~e.inZoomControl THEN e.pt ELSE [x |-> Rat(p.width, 2), y |-> Rat(p.height, 2)]

wheelScale(p, st, e) ==
  LET zoomSpeed == wheelZoomSpeed(e)
      targetScale == Mul(st.scale, Sub(One, Mul(Int2R(e.deltaY), zoomSpeed)))
  IN  RMax(getMinZoom(p), RMin(getMaxZoom(p), targetScale))

\* mutant: shift with no horizontal delta pans the vertical offset
PanAndZoom_onWheel_ShiftVertical(p, ph, st, e) ==
  LET cursorPosition == wheelCursorPosition(p, e)
      scale == wheelScale(p, st, e)
  IN  IF e.mod \/ e.inZoomControl
      THEN adjustZoomRelativeToScreenPoint(p, ph, st, scale, cursorPosition)
      ELSE IF e.shiftKey /\ e.deltaX = 0
      THEN shiftXY(ph, st, Zero, Mul(Int2R(e.deltaY), panSpeed))
      ELSE shiftXY(ph, st, Mul(Int2R(-e.deltaX), panSpeed), Mul(Int2R(-e.deltaY), panSpeed))

PanAndZoom_onWheel(p, ph, st, e) ==
  LET cursorPosition == wheelCursorPosition(p, e)
      scale == wheelScale(p, st, e)
  IN  IF e.mod \/ e.inZoomControl
      THEN adjustZoomRelativeToScreenPoint(p, ph, st, scale, cursorPosition)
      ELSE IF e.shiftKey /\ e.deltaX = 0
      THEN shiftXY(ph, st, Mul(Int2R(e.deltaY), panSpeed), Zero)
      ELSE shiftXY(ph, st, Mul(Int2R(-e.deltaX), panSpeed), Mul(Int2R(-e.deltaY), panSpeed))

zoomInButton(p, ph, st) ==
  LET x == Rat(p.width, 2)
      y == Rat(p.height, 2)
      scale == RMin(getMaxZoom(p), Add(st.scale, BUTTON_INCREMENT))
      adjusted == Round2(scale)
  IN  adjustZoomRelativeToScreenPoint(p, ph, st, adjusted, [x |-> x, y |-> y])

zoomOutButton(p, ph, st) ==
  LET x == Rat(p.width, 2)
      y == Rat(p.height, 2)
      scale == RMax(getMinZoom(p), Sub(st.scale, BUTTON_INCREMENT))
  IN  adjustZoomRelativeToScreenPoint(p, ph, st, scale, [x |-> x, y |-> y])

sliderOnChange(p, ph, st, scale) ==
  adjustZoomRelativeToScreenPoint(p, ph, st, scale,
                                  [x |-> Rat(p.width, 2), y |-> Rat(p.height, 2)])

(***************************************************************************)
(* Initial state: the component as constructed (class fields, lines        *)
(* 293-306), before componentDidMount.                                     *)
(***************************************************************************)
NoOp == [op |-> "init", id |-> 0, pre |-> [x |-> Zero, y |-> Zero, scale |-> DETAIL_ZOOM,
         minScale |-> Zero, isClickHeld |-> FALSE], preAnimation |-> 0,
         animate |-> FALSE, scale |-> None,
         pt |-> Pt(0, 0), suppressed |-> FALSE, travel |-> 0, applied |-> FALSE,
         threw |-> FALSE, running |-> {}, retPt |-> Pt(0, 0),
         retBox |-> [top |-> Zero, left |-> Zero, right |-> Zero, bottom |-> Zero],
         shiftKey |-> FALSE, inZoomControl |-> FALSE, deltaX |-> 0, deltaY |-> 0]

Running == {i \in DOMAIN anims : InFlight(anims[i])}

Did(op) == [NoOp EXCEPT !.op = op, !.pre = state, !.preAnimation = animation,
                        !.running = Running]

(***************************************************************************)
(* WheelInstructionTooltip, rendered by PanAndZoomInteractor.render.        *)
(* usedMeta and wheeling are its React state; timeout is the number of     *)
(* seconds until its timer fires, or -1 with no timer pending.  idle (the  *)
(* seconds since the latest wheel event, up to HintSeconds), lastWheel and *)
(* modSeen are history.                                                    *)
(***************************************************************************)
NoTooltip ==
  [usedMeta |-> FALSE, wheeling |-> FALSE, timeout |-> -1,
   idle |-> 0, lastWheel |-> "none", modSeen |-> FALSE]

\* the tooltip is mounted with a mounted viewport whose interactor renders it
tooltipMounted(p, ph) == ph = "mounted" /\ p.interactor = "PanAndZoom"

\* e.metaKey || e.shiftKey || e.ctrlKey
wheelModified(e) == e.mod \/ e.shiftKey

\* the tooltip's document 'wheel' listener, on the wrong side of the modifier test
tooltipListener_Inverted(t, e) ==
  IF ~wheelModified(e)
  THEN [t EXCEPT !.usedMeta = TRUE, !.wheeling = FALSE, !.timeout = -1]
  ELSE [t EXCEPT !.wheeling = TRUE, !.timeout = HintSeconds]

\* the tooltip's document 'wheel' listener
tooltipListener(t, e) ==
  IF wheelModified(e)
  THEN [t EXCEPT !.usedMeta = TRUE, !.wheeling = FALSE, !.timeout = -1]
  ELSE [t EXCEPT !.wheeling = TRUE, !.timeout = HintSeconds]

\* const visible = wheeling && !usedMeta, of a mounted tooltip
tooltipVisible(p, ph, t) == tooltipMounted(p, ph) /\ t.wheeling /\ ~t.usedMeta

\* a wheel event reaches the document: the tooltip's listener runs if mounted
TooltipOnWheel(e) ==
  tooltip' = IF tooltipMounted(props, phase)
             THEN [tooltipListener(tooltip, e) EXCEPT
                     !.idle = 0,
                     !.lastWheel = IF wheelModified(e) THEN "modified" ELSE "plain",
                     !.modSeen = tooltip.modSeen \/ wheelModified(e)]
             ELSE tooltip

InitOf(configs, b) ==
  /\ props \in configs
  /\ phase = "constructed"
  /\ state = [x |-> Zero, y |-> Zero, scale |-> DETAIL_ZOOM, minScale |-> Zero,
              isClickHeld |-> FALSE]
  /\ animation = 0
  /\ anims = <<>>
  /\ wheelListener = FALSE
  /\ drags = <<>>
  /\ last = NoOp
  /\ steps = 0
  /\ budget = b
  /\ rendered = [phase |-> phase, state |-> state]
  /\ tooltip = NoTooltip

InitWith(b) == InitOf(Configs, b)

\* the full specification takes the hosts that fit the whole content; the
\* fit-to-width host is taken by the specifications of the commands and the zoom
FitConfigs == {c \in Configs : c.defaultZoom = "zoom-to-fit"}

Init == InitOf(FitConfigs, MaxSteps)

Tick == steps < budget /\ steps' = steps + 1 /\ budget' = budget

\* React renders again after a setState on a mounted component
Render(didSetState) ==
  rendered' = IF didSetState /\ phase' = "mounted"
              THEN [phase |-> phase', state |-> state']
              ELSE rendered

\* what the latest render() produced
rendering == render(props, rendered.phase, rendered.state)

\* a call that fails with a TypeError on the null container element
Throws(op) ==
  /\ last' = [Did(op) EXCEPT !.threw = TRUE]
  /\ UNCHANGED <<state, animation, anims, rendered>>

\* history: the animation a command has started gets the command's arguments
StartedBy(W, op, pt, scale) ==
  IF Len(W.anims) > Len(anims)
  THEN [W EXCEPT !.anims[Len(W.anims)].hBy = [op |-> op, pt |-> pt, scale |-> scale]]
  ELSE W

Apply(W) == /\ state' = W.state
            /\ animation' = W.animation
            /\ anims' = W.anims

\* the world as a command finds it, with the history marks of the animations
\* that are in flight when the command acts
Marked(cmd, smooth) ==
  [World EXCEPT !.anims = IF smooth THEN MarkSmooth(MarkCmd(anims))
                          ELSE IF cmd THEN MarkCmd(anims) ELSE anims]

(***************************************************************************)
(* Lifecycle                                                               *)
(***************************************************************************)
componentDidMount ==
  /\ phase = "constructed"
  /\ phase' = "mounted"
  /\ Apply(autocenter(props, "mounted", World, FALSE, None))
  /\ wheelListener' = TRUE
  /\ last' = [Did("mount") EXCEPT !.applied = ~autocenterSkips(props, state, None)]
  /\ UNCHANGED <<props, tooltip, drags, steps, budget>>
  /\ Render(~autocenterSkips(props, state, None))

componentWillUnmount ==
  /\ phase = "mounted"
  /\ Tick
  /\ phase' = "unmounted"
  /\ wheelListener' = FALSE
  /\ last' = Did("unmount")
  /\ tooltip' = [tooltip EXCEPT !.timeout = -1]
  /\ UNCHANGED <<props, state, animation, anims, drags, rendered>>

(***************************************************************************)
(* Commands of the public API, called by the host on a mounted viewport    *)
(***************************************************************************)
\* after unmount element.current is null and el.clientWidth (line 374) throws
Autocenter(animate, scale) ==
  /\ phase \in {"mounted", "unmounted"}
  /\ Tick
  /\ UNCHANGED <<props, tooltip, phase, wheelListener, drags>>
  /\ IF phase = "unmounted" THEN Throws("autocenter")
     ELSE /\ animate => Len(anims) < MaxAnims
          /\ LET applies == ~autocenterSkips(props, state, scale)
                 W == autocenter(props, phase, Marked(applies, applies /\ animate),
                                 animate, scale)
             IN  /\ Apply(StartedBy(W, "autocenter", GraphCentre,
                                    autocenterBoundedScale(props, scale)))
                 /\ last' = [Did("autocenter") EXCEPT !.animate = animate, !.scale = scale,
                                                     !.applied = applies]
                 /\ Render(applies /\ ~animate)

\* after unmount el.getBoundingClientRect() in zoomToSVGCoords (line 453) throws
ZoomToSVGBox(box, animate, newScale) ==
  /\ phase \in {"mounted", "unmounted"}
  /\ Tick
  /\ UNCHANGED <<props, tooltip, phase, wheelListener, drags>>
  /\ IF phase = "unmounted" THEN Throws("zoomToSVGBox")
     ELSE LET centre == [x |-> Add(Int2R(box.x), Rat(box.width, 2)),
                         y |-> Add(Int2R(box.y), Rat(box.height, 2))]
              asked == IF newScale = None THEN state.scale ELSE newScale
              W == zoomToSVGBox(props, phase, Marked(TRUE, animate), box, animate, newScale)
          IN  /\ animate => Len(anims) < MaxAnims
              /\ Apply(StartedBy(W, "zoomToSVGBox", centre, asked))
              /\ last' = [Did("zoomToSVGBox") EXCEPT !.animate = animate,
                            !.scale = newScale, !.pt = centre, !.applied = TRUE]
              /\ Render(~animate)

\* after unmount el.getBoundingClientRect() (line 453) throws
ZoomToSVGCoords(w, animate, scale) ==
  /\ phase \in {"mounted", "unmounted"}
  /\ Tick
  /\ UNCHANGED <<props, tooltip, phase, wheelListener, drags>>
  /\ IF phase = "unmounted" THEN Throws("zoomToSVGCoords")
     ELSE LET asked == IF scale = None THEN state.scale ELSE scale
              W == zoomToSVGCoords(props, phase, Marked(TRUE, animate), w.x, w.y,
                                   animate, scale)
          IN  /\ animate => Len(anims) < MaxAnims
              /\ Apply(StartedBy(W, "zoomToSVGCoords", w, asked))
              /\ last' = [Did("zoomToSVGCoords") EXCEPT !.animate = animate,
                            !.scale = scale, !.pt = w, !.applied = TRUE]
              /\ Render(~animate)

\* after unmount el.getBoundingClientRect() in screenToSVGCoords (line 410) throws
AdjustZoomRelativeToScreenPoint(nextScale, point) ==
  /\ phase \in {"mounted", "unmounted"}
  /\ Tick
  /\ UNCHANGED <<props, tooltip, phase, wheelListener, drags>>
  /\ IF phase = "unmounted" THEN Throws("adjustZoomRelativeToScreenPoint")
     ELSE /\ state' = adjustZoomRelativeToScreenPoint(props, phase, state, nextScale, point)
          /\ last' = [Did("adjustZoomRelativeToScreenPoint") EXCEPT !.scale = nextScale,
                        !.pt = point, !.applied = TRUE,
                        !.retPt = screenToSVGCoords(props, state, point)]
          /\ UNCHANGED <<animation, anims>>
          /\ Render(TRUE)

ShiftXY(dx, dy) ==
  /\ phase = "mounted"
  /\ Tick
  /\ state' = shiftXY(phase, state, dx, dy)
  /\ last' = [Did("shiftXY") EXCEPT !.pt = [x |-> dx, y |-> dy]]
  /\ UNCHANGED <<props, tooltip, phase, animation, anims, wheelListener, drags>>
  /\ Render(TRUE)

(***************************************************************************)
(* The callbacks of an animation (smoothZoom, lines 471-483), run by       *)
(* amator: a frame sets the interpolated values and calls step; the frame  *)
(* after the last step queues done.                                        *)
(***************************************************************************)
easing(t) == t

AnimValues(a) ==
  LET t == easing(Rat(a.frame, DurationInFrames))
  IN  [x |-> Add(Mul(Sub(a.to.x, a.from.x), t), a.from.x),
       y |-> Add(Mul(Sub(a.to.y, a.from.y), t), a.from.y),
       scale |-> Add(Mul(Sub(a.to.scale, a.from.scale), t), a.from.scale)]

AnimStep(i) ==
  /\ i \in DOMAIN anims
  /\ anims[i].raf
  /\ anims[i].frame + 1 <= DurationInFrames
  /\ LET v == AnimValues(anims[i])
     IN  state' = setState(phase, state, [x |-> v.x, y |-> v.y, scale |-> v.scale])
  /\ anims' = [anims EXCEPT ![i].frame = @ + 1]
  /\ last' = [Did("step") EXCEPT !.id = i]
  /\ UNCHANGED <<props, tooltip, phase, animation, wheelListener, drags, steps, budget>>
  /\ Render(TRUE)

AnimLastFrame(i) ==
  /\ i \in DOMAIN anims
  /\ anims[i].raf
  /\ anims[i].frame + 1 > DurationInFrames
  /\ anims' = [anims EXCEPT ![i].frame = @ + 1, ![i].raf = FALSE, ![i].timer = TRUE]
  /\ last' = [Did("lastframe") EXCEPT !.id = i]
  /\ UNCHANGED <<props, tooltip, phase, state, animation, wheelListener, drags, steps, budget,
                 rendered>>

AnimDone(i) ==
  /\ i \in DOMAIN anims
  /\ anims[i].timer
  /\ state' = setState(phase, state, anims[i].to)
  /\ animation' = 0
  /\ anims' = [anims EXCEPT ![i].timer = FALSE]
  /\ last' = [Did("done") EXCEPT !.id = i]
  /\ UNCHANGED <<props, tooltip, phase, wheelListener, drags, steps, budget>>
  /\ Render(TRUE)

(***************************************************************************)
(* Input events                                                            *)
(***************************************************************************)
\* React onMouseDown of the container: interactor.onMouseDown(this, e)
MouseDown(pt, inSlider) ==
  /\ phase = "mounted"
  /\ Tick
  /\ IF props.interactor = "None"
     THEN UNCHANGED <<state, animation, anims, drags>>
     ELSE /\ animation' = animation
          /\ IF inSlider
             THEN /\ anims' = cancel(anims, animation)
                  /\ UNCHANGED <<state, drags>>
             ELSE /\ Len(Live(drags)) < MaxDrags
                  /\ anims' = cancel(MarkCmd(anims), animation)
                  /\ state' = setState(phase, state, [isClickHeld |-> TRUE])
                  /\ drags' = Append(Live(drags),
                                [lastX |-> pt.x, lastY |-> pt.y, travelX |-> Zero,
                                 travelY |-> Zero, moveUp |-> TRUE, click |-> TRUE,
                                 timer |-> FALSE, start |-> pt, from |-> state])
  /\ last' = [Did("mousedown") EXCEPT !.pt = pt,
                !.applied = (props.interactor = "PanAndZoom" /\ ~inSlider)]
  /\ UNCHANGED <<props, tooltip, phase, wheelListener>>
  /\ Render(props.interactor = "PanAndZoom" /\ ~inSlider)

\* a mousemove event on the document: every attached onMove runs
MouseMove(pt) ==
  /\ \E i \in DOMAIN drags : drags[i].moveUp
  /\ Tick
  /\ LET r == onMoveAll(phase, state, drags, 1, pt)
     IN  /\ state' = r.state
         /\ drags' = r.drags
  /\ last' = [Did("mousemove") EXCEPT !.pt = pt]
  /\ UNCHANGED <<props, tooltip, phase, animation, anims, wheelListener>>
  /\ Render(TRUE)

\* onUp of every closure whose mouseup listener is attached: the mousemove and
\* mouseup listeners are removed and the removal of the click listener is queued
RECURSIVE onUpAll(_, _)
\* mutant: only the onUp of the latest closure runs
onUpAll_LatestOnly(ds, n) ==
  [i \in DOMAIN ds |->
     IF i = n /\ ds[i].moveUp THEN [ds[i] EXCEPT !.moveUp = FALSE, !.timer = TRUE]
     ELSE ds[i]]

onUpAll(ds, n) ==
  IF n = 0 THEN <<>>
  ELSE Append(onUpAll(ds, n - 1),
              IF ds[n].moveUp THEN [ds[n] EXCEPT !.moveUp = FALSE, !.timer = TRUE]
              ELSE ds[n])

\* a mouseup event on the document: every attached onUp runs
MouseUp ==
  /\ \E i \in DOMAIN drags : drags[i].moveUp
  /\ Tick
  /\ state' = setState(phase, state, [isClickHeld |-> FALSE])
  /\ drags' = onUpAll(drags, Len(drags))
  /\ last' = Did("mouseup")
  /\ UNCHANGED <<props, tooltip, phase, animation, anims, wheelListener>>
  /\ Render(TRUE)

\* the timer of onUp: removes the capture-click listener of closure i
RemoveClickListener(i) ==
  /\ i \in DOMAIN drags
  /\ drags[i].timer
  /\ drags' = Live([drags EXCEPT ![i].timer = FALSE, ![i].click = FALSE])
  /\ last' = Did("removeclick")
  /\ UNCHANGED <<props, tooltip, phase, state, animation, anims, wheelListener, steps, budget,
                 rendered>>

\* drags whose capture-click listener is on the document
ClickListeners == {i \in DOMAIN drags : drags[i].click}
Travel(d) == Floor(Add(d.travelX, d.travelY))
MaxTravel(S) == CHOOSE t \in {Travel(drags[i]) : i \in S} :
                  \A i \in S : Travel(drags[i]) <= t

\* a click on the document after the button was released: the capture
\* listeners run before the click reaches the content
Click ==
  /\ ClickListeners # {}
  /\ \A i \in DOMAIN drags : ~drags[i].moveUp
  /\ Tick
  /\ last' = [Did("click") EXCEPT
                !.suppressed = (\E i \in ClickListeners : onCancelClick(drags[i])),
                !.travel = MaxTravel(ClickListeners)]
  /\ UNCHANGED <<props, tooltip, phase, state, animation, anims, wheelListener, drags, rendered>>

\* SVGViewport.onWheel for an event inside the container
\* NoneInteractor.onWheel with the body of the pan-and-zoom interactor's
NoneInteractor_onWheel_Pans(p, ph, st, e) == PanAndZoom_onWheel(p, ph, st, e)

\* NoneInteractor.onWheel returns at once
NoneInteractor_onWheel(p, ph, st, e) == st

Wheel(e) ==
  /\ wheelListener
  /\ phase = "mounted"
  /\ Tick
  /\ state' = IF props.interactor = "None" THEN NoneInteractor_onWheel(props, phase, state, e)
              ELSE PanAndZoom_onWheel(props, phase, state, e)
  /\ last' = [Did("wheel") EXCEPT
                !.pt = wheelCursorPosition(props, e),
                !.scale = wheelScale(props, state, e),
                !.applied = (props.interactor = "PanAndZoom" /\ (e.mod \/ e.inZoomControl)),
                !.retPt = screenToSVGCoords(props, state, wheelCursorPosition(props, e)),
                !.shiftKey = e.shiftKey, !.inZoomControl = e.inZoomControl,
                !.deltaX = e.deltaX, !.deltaY = e.deltaY]
  /\ TooltipOnWheel(e)
  /\ UNCHANGED <<props, phase, animation, anims, wheelListener, drags>>
  /\ Render(props.interactor = "PanAndZoom")

ZoomInClick ==
  /\ phase = "mounted"
  /\ props.interactor = "PanAndZoom"
  /\ Tick
  /\ state' = zoomInButton(props, phase, state)
  /\ last' = [Did("zoomin") EXCEPT
                !.scale = Round2(RMin(getMaxZoom(props), Add(state.scale, BUTTON_INCREMENT))),
                !.pt = [x |-> Rat(props.width, 2), y |-> Rat(props.height, 2)],
                !.applied = TRUE,
                !.retPt = screenToSVGCoords(props, state,
                            [x |-> Rat(props.width, 2), y |-> Rat(props.height, 2)])]
  /\ UNCHANGED <<props, tooltip, phase, animation, anims, wheelListener, drags>>
  /\ Render(TRUE)

ZoomOutClick ==
  /\ phase = "mounted"
  /\ props.interactor = "PanAndZoom"
  /\ Tick
  /\ state' = zoomOutButton(props, phase, state)
  /\ last' = [Did("zoomout") EXCEPT
                !.scale = RMax(getMinZoom(props), Sub(state.scale, BUTTON_INCREMENT)),
                !.pt = [x |-> Rat(props.width, 2), y |-> Rat(props.height, 2)],
                !.applied = TRUE,
                !.retPt = screenToSVGCoords(props, state,
                            [x |-> Rat(props.width, 2), y |-> Rat(props.height, 2)])]
  /\ UNCHANGED <<props, tooltip, phase, animation, anims, wheelListener, drags>>
  /\ Render(TRUE)

\* the Slider reports values between its min and max
SliderChange(scale) ==
  /\ phase = "mounted"
  /\ props.interactor = "PanAndZoom"
  /\ Le(getMinZoom(props), scale) /\ Le(scale, getMaxZoom(props))
  /\ Tick
  /\ state' = sliderOnChange(props, phase, state, scale)
  /\ last' = [Did("slider") EXCEPT !.scale = scale,
                !.pt = [x |-> Rat(props.width, 2), y |-> Rat(props.height, 2)],
                !.applied = TRUE,
                !.retPt = screenToSVGCoords(props, state,
                            [x |-> Rat(props.width, 2), y |-> Rat(props.height, 2)])]
  /\ UNCHANGED <<props, tooltip, phase, animation, anims, wheelListener, drags>>
  /\ Render(TRUE)

onZoomAndCenter(p, ph, W, offsetXY) ==
  LET offset == screenToSVGCoords(p, W.state, offsetXY)
      maxZoom == IF Falsy(p.maxZoom) THEN DEFAULT_ZOOM ELSE p.maxZoom
  IN  IF Lt(RAbs(Sub(maxZoom, W.state.scale)), <<1, 100>>)
      THEN zoomToSVGCoords(p, ph, W, offset.x, offset.y, TRUE, W.state.minScale)
      ELSE zoomToSVGCoords(p, ph, W, offset.x, offset.y, TRUE, maxZoom)

OnZoomAndCenter(pt) ==
  /\ phase = "mounted"
  /\ Tick
  /\ Len(anims) < MaxAnims
  /\ Apply(StartedBy(onZoomAndCenter(props, phase, Marked(TRUE, TRUE), pt),
                     "onZoomAndCenter", screenToSVGCoords(props, state, pt), None))
  /\ last' = [Did("onZoomAndCenter") EXCEPT !.pt = pt, !.animate = TRUE, !.applied = TRUE,
                !.retPt = screenToSVGCoords(props, state, pt)]
  /\ UNCHANGED <<props, tooltip, phase, wheelListener, drags, rendered>>

\* history: the animation that a cancelAnimations call finds in flight
MarkCancel(as, id) ==
  IF id # 0 /\ InFlight(as[id]) THEN [as EXCEPT ![id].hCancel = TRUE] ELSE as

\* cancelAnimations(): the handle stays in this._animation
CancelAnimations ==
  /\ phase \in {"mounted", "unmounted"}
  /\ Tick
  /\ anims' = cancel(MarkCancel(anims, animation), animation)
  /\ last' = Did("cancelAnimations")
  /\ UNCHANGED <<props, tooltip, phase, state, animation, wheelListener, drags, rendered>>

\* mutant: the export given the region that is visible on the screen
unclippedViewport_Visible(p, ph, st) == getViewport(p, ph, st)

\* the region onExportToSVG passes to the children callback
unclippedViewport(p, ph, st) ==
  [top |-> Zero, left |-> Zero, right |-> Int2R(p.graphWidth),
   bottom |-> Int2R(p.graphHeight)]

\* onExportToSVG renders the children into a detached element, with
\* this.state and the unclipped region, and serialises the result
OnExportToSVG ==
  /\ phase = "mounted"
  /\ Tick
  /\ last' = [Did("export") EXCEPT !.retBox = unclippedViewport(props, phase, state),
                                   !.applied = TRUE]
  /\ UNCHANGED <<props, tooltip, phase, state, animation, anims, wheelListener, drags, rendered>>

\* a wheel event whose target is outside the container: SVGViewport.onWheel
\* leaves it alone and the tooltip's listener handles it
WheelOutside(e) ==
  /\ phase = "mounted"
  /\ Tick
  /\ TooltipOnWheel(e)
  /\ last' = [Did("wheeloutside") EXCEPT !.shiftKey = e.shiftKey,
                !.deltaX = e.deltaX, !.deltaY = e.deltaY]
  /\ UNCHANGED <<props, phase, state, animation, anims, wheelListener, drags, rendered>>

\* a second passes without a wheel event; a timer that is due fires first
Elapse ==
  /\ tooltipMounted(props, phase)
  /\ tooltip.lastWheel # "none" /\ tooltip.idle < HintSeconds
  /\ tooltip.timeout # 0
  /\ Tick
  /\ tooltip' = [tooltip EXCEPT !.timeout = IF @ > 0 THEN @ - 1 ELSE @, !.idle = @ + 1]
  /\ last' = Did("elapse")
  /\ UNCHANGED <<props, phase, state, animation, anims, wheelListener, drags, rendered>>

\* the tooltip's timer fires: setWheeling(false)
TooltipTimeout ==
  /\ tooltip.timeout = 0
  /\ tooltip' = [tooltip EXCEPT !.wheeling = FALSE, !.timeout = -1]
  /\ last' = Did("tooltiptimeout")
  /\ UNCHANGED <<props, phase, state, animation, anims, wheelListener, drags, rendered,
                 steps, budget>>

Next ==
  \/ componentDidMount
  \/ componentWillUnmount
  \/ \E animate \in BOOLEAN, scale \in AutocenterScales : Autocenter(animate, scale)
  \/ \E box \in Boxes, animate \in BOOLEAN,
        scale \in BoxScales \cup {getMinZoom(props)} : ZoomToSVGBox(box, animate, scale)
  \/ \E w \in WorldPoints, animate \in BOOLEAN, scale \in ZoomScales :
        ZoomToSVGCoords(w, animate, scale)
  \/ \E scale \in AdjustScales, pt \in ScreenPoints :
        AdjustZoomRelativeToScreenPoint(scale, pt)
  \/ ShiftXY(Int2R(10), Int2R(-5))
  \/ \E i \in DOMAIN anims : AnimStep(i)
  \/ \E i \in DOMAIN anims : AnimLastFrame(i)
  \/ \E i \in DOMAIN anims : AnimDone(i)
  \/ \E pt \in ScreenPoints, inSlider \in BOOLEAN : MouseDown(pt, inSlider)
  \/ \E pt \in MousePoints : MouseMove(pt)
  \/ MouseUp
  \/ \E i \in DOMAIN drags : RemoveClickListener(i)
  \/ Click
  \/ \E e \in WheelEvents : Wheel(e)
  \/ ZoomInClick
  \/ ZoomOutClick
  \/ \E scale \in SliderScales \cup {getMinZoom(props), getMaxZoom(props)} :
        SliderChange(scale)
  \/ \E pt \in ScreenPoints : OnZoomAndCenter(pt)
  \/ OnExportToSVG
  \/ CancelAnimations
  \/ \E e \in OutsideWheelEvents : WheelOutside(e)
  \/ Elapse
  \/ TooltipTimeout

Spec == Init /\ [][Next]_vars

(***************************************************************************)
(* Parts of the component on their own, each with its own budget of        *)
(* operations: the autocenter and zoom-to-region commands with the         *)
(* animations they start; the callers of adjustZoomRelativeToScreenPoint;  *)
(* the pointer protocol of the PanAndZoom interactor.                      *)
(***************************************************************************)
InitCommands == InitWith(MaxCommandSteps)

NextCommands ==
  \/ componentDidMount
  \/ \E animate \in BOOLEAN, scale \in AutocenterScales : Autocenter(animate, scale)
  \/ \E box \in Boxes, animate \in BOOLEAN,
        scale \in BoxScales \cup {getMinZoom(props)} : ZoomToSVGBox(box, animate, scale)
  \/ \E scale \in AdjustScales, pt \in ScreenPoints :
        AdjustZoomRelativeToScreenPoint(scale, pt)
  \/ \E i \in DOMAIN anims : AnimStep(i)
  \/ \E i \in DOMAIN anims : AnimLastFrame(i)
  \/ \E i \in DOMAIN anims : AnimDone(i)
  \/ \E scale \in SliderScales \cup {getMinZoom(props), getMaxZoom(props)} :
        SliderChange(scale)
  \/ CancelAnimations

SpecCommands == InitCommands /\ [][NextCommands]_vars

InitZoom == InitWith(MaxZoomSteps)

NextZoom ==
  \/ componentDidMount
  \/ \E scale \in AdjustScales \cup (ZoomScales \ {None}),
        pt \in ScreenPoints \cup {Pt(40, 30)} :
        AdjustZoomRelativeToScreenPoint(scale, pt)
  \/ ShiftXY(Int2R(10), Int2R(-5))
  \/ \E e \in WheelEvents \cup ShiftedWheelEvents : Wheel(e)
  \/ ZoomInClick
  \/ ZoomOutClick
  \/ \E scale \in SliderScales \cup {getMinZoom(props), getMaxZoom(props)} :
        SliderChange(scale)

SpecZoom == InitZoom /\ [][NextZoom]_vars

InitPointer == InitWith(MaxPointerSteps)

NextPointer ==
  \/ componentDidMount
  \/ componentWillUnmount
  \/ \E pt \in ScreenPoints, inSlider \in BOOLEAN : MouseDown(pt, inSlider)
  \/ \E pt \in MousePoints : MouseMove(pt)
  \/ MouseUp
  \/ \E i \in DOMAIN drags : RemoveClickListener(i)
  \/ Click

SpecPointer == InitPointer /\ [][NextPointer]_vars

\* the zoom limits over a range of content and container sizes
InitSizes == InitOf(SizeConfigs, MaxSizeSteps)

NextSizes ==
  \/ componentDidMount
  \/ ZoomInClick
  \/ ZoomOutClick
  \/ \E scale \in {getMinZoom(props), getMaxZoom(props)} : SliderChange(scale)

SpecSizes == InitSizes /\ [][NextSizes]_vars

\* zoomToSVGCoords over scales below, within and above the zoom limits
InitCoords == InitWith(MaxCoordSteps)

NextCoords ==
  \/ componentDidMount
  \/ \E w \in WorldPoints, animate \in BOOLEAN, scale \in CoordScales :
        ZoomToSVGCoords(w, animate, scale)
  \/ \E scale \in AdjustScales, pt \in ScreenPoints :
        AdjustZoomRelativeToScreenPoint(scale, pt)
  \/ ShiftXY(Int2R(10), Int2R(-5))
  \/ \E i \in DOMAIN anims : AnimStep(i)
  \/ \E i \in DOMAIN anims : AnimLastFrame(i)
  \/ \E i \in DOMAIN anims : AnimDone(i)
  \/ OnExportToSVG

SpecCoords == InitCoords /\ [][NextCoords]_vars

(***************************************************************************)
(* Properties                                                              *)
(***************************************************************************)
XYS(st) == [x |-> st.x, y |-> st.y, scale |-> st.scale]
\* a step or done callback of animation i has just changed x, y or scale
Wrote(i) == last.op \in {"step", "done"} /\ last.id = i /\ XYS(state) # XYS(last.pre)

\* C1: in every state reachable from mount, state.scale lies within
\* [getMinZoom(), getMaxZoom()].
C1_ScaleWithinZoomBounds ==
  phase = "mounted" =>
    /\ Le(getMinZoom(props), state.scale)
    /\ Le(state.scale, getMaxZoom(props))

\* C2: once smoothZoom(B) has been called while animation A was in flight,
\* no step or done callback of A changes the state, the handle of the newest
\* animation is the active one for as long as that animation runs, and when
\* an animation completes the state equals its target.
C2_SmoothZoomSupersedes ==
  /\ \A i \in DOMAIN anims : anims[i].hSmooth => ~Wrote(i)
  /\ ((\E i \in DOMAIN anims : anims[i].hSmooth) /\ InFlight(anims[Len(anims)]))
       => animation = Len(anims)
  /\ (last.op = "done" /\ phase = "mounted") => XYS(state) = anims[last.id].to

\* C3: after an explicit command (autocenter, zoomToSVGBox, zoomToSVGCoords,
\* animated or not, or a mouse-down that starts a drag) has acted, no step or
\* done callback of an animation that was in flight at the command writes to
\* the state.
C3_CommandsCancelAnimations ==
  \A i \in DOMAIN anims : anims[i].hCmd => ~Wrote(i)

\* C4: after adjustZoomRelativeToScreenPoint(s2, P) with s2 different from the
\* current scale, screenToSVGCoords(P) is the world point it was before the
\* call, and state.scale is s2.
ZoomOps == {"adjustZoomRelativeToScreenPoint", "wheel", "zoomin", "zoomout", "slider"}
C4_ZoomAnchor ==
  (last.op \in ZoomOps /\ last.applied /\ last.scale # last.pre.scale) =>
    /\ screenToSVGCoords(props, state, last.pt) = screenToSVGCoords(props, last.pre, last.pt)
    /\ state.scale = last.scale

C4_Witness ==
  /\ last.op = "wheel" /\ last.applied
  /\ last.scale # last.pre.scale
  /\ last.pt # Centre
  /\ state.x # last.pre.x
  /\ screenToSVGCoords(props, state, last.pt) # Pt(0, 0)

\* C5 (as stated): with a container of 800x600, content of 400x300 and the
\* scale at minZoom (0.17), autocenter() leaves x, y, scale and minScale
\* unchanged.
C5_Case ==
  /\ last.op = "autocenter" /\ ~last.animate /\ last.scale = None
  /\ props.width = 800 /\ props.height = 600
  /\ props.graphWidth = 400 /\ props.graphHeight = 300
  /\ getMinZoom(props) = DEFAULT_MIN_ZOOM
  /\ last.pre.scale = getMinZoom(props)

C5_AutocenterNoOpAtMinZoom == C5_Case => state = last.pre

\* C5 (amended): in that case autocenter() applies: scale and minScale become
\* the fit scale limited by maxAutocenterZoom (here 1), and the content is
\* centred (x = 200, y = 150).
C5_AutocenterAppliesAtMinZoom ==
  C5_Case =>
    /\ state.scale = RMin(Int2R(2), props.maxAutocenterZoom)
    /\ state.minScale = state.scale
    /\ state.x = Int2R(200) /\ state.y = Int2R(150)
    /\ state # last.pre

C5_Witness == C5_Case /\ Lt(last.pre.scale, state.scale)

\* C6 (as stated): whenever the current scale is less than the autocenter
\* target scale and the target equals getMinZoom(), autocenter leaves the
\* state unchanged and starts no animation.
C6_Case ==
  /\ last.op = "autocenter"
  /\ Lt(last.pre.scale, autocenterBoundedScale(props, last.scale))
  /\ autocenterBoundedScale(props, last.scale) = getMinZoom(props)

C6_NoOpBelowMinTarget ==
  C6_Case => (state = last.pre /\ animation = last.preAnimation)

\* C6 (amended): ... and the desired fit scale differs from the target ...
C6_NoOpBelowClampedMinTarget ==
  (C6_Case /\ autocenterDesiredScale(props) # autocenterBoundedScale(props, last.scale)) =>
    (state = last.pre /\ animation = last.preAnimation)

C6_Witness ==
  /\ C6_Case
  /\ autocenterDesiredScale(props) # autocenterBoundedScale(props, last.scale)
  /\ XYS(state) # XYS(autocenterTarget(props, last.scale))

\* C7 (as stated): whenever the autocenter target scale is not the minimum
\* zoom, autocenter applies: the scale it sets (or animates to) is the desired
\* fit scale clamped to [getMinZoom(), maxAutocenterZoom], and the offset puts
\* the content's centre at the centre of the container.
C7_Result == IF last.animate THEN anims[animation].to ELSE XYS(state)
C7_Clamped ==
  RMax(RMin(autocenterDesiredScale(props), props.maxAutocenterZoom), getMinZoom(props))
C7_Applied ==
  /\ last.animate => (animation # last.preAnimation /\ animation \in DOMAIN anims)
  /\ C7_Result.scale = C7_Clamped
  /\ renderTransform(C7_Result, GraphCentre) = Centre

C7_AutocenterFits ==
  (last.op = "autocenter" /\ autocenterBoundedScale(props, last.scale) # getMinZoom(props))
    => C7_Applied

\* C7 (amended): ... whenever autocenter is called without an explicit scale
\* and the target scale is not the minimum zoom ...
C7_AutocenterFitsWithoutExplicitScale ==
  (/\ last.op = "autocenter"
   /\ Falsy(last.scale)
   /\ autocenterBoundedScale(props, last.scale) # getMinZoom(props))
    => C7_Applied

C7_Witness ==
  /\ last.op = "autocenter" /\ Falsy(last.scale) /\ ~last.animate
  /\ autocenterBoundedScale(props, last.scale) # getMinZoom(props)
  /\ last.pre.scale # state.scale
  /\ Lt(C7_Clamped, autocenterDesiredScale(props))

\* C8: zoomToSVGBox(box, animate=false, scale) with scale equal to
\* getMinZoom(), given or taken from the current scale, ends with state.scale
\* equal to getMaxZoom() and the centre of the box at the centre of the
\* container.
C8_Case ==
  /\ last.op = "zoomToSVGBox" /\ ~last.animate
  /\ (IF last.scale = None THEN last.pre.scale ELSE last.scale) = getMinZoom(props)

C8_ZoomToBoxTogglesToMax ==
  C8_Case =>
    /\ state.scale = getMaxZoom(props)
    /\ renderTransform(state, last.pt) = Centre

C8_Witness == C8_Case /\ last.scale = None /\ state.scale # last.pre.scale

\* C9: the click that follows a drag is suppressed exactly when the drag's
\* cumulative travel exceeds 5px (not at 3px, but at 10px).
C9_ClickSuppressedAboveThreshold ==
  last.op = "click" => (last.suppressed <=> last.travel > 5)

\* C10: after unmount no listener registered by the viewport remains on the
\* document.
C10_NoListenerAfterUnmount ==
  phase = "unmounted" =>
    /\ ~wheelListener
    /\ \A i \in DOMAIN drags : ~drags[i].moveUp /\ ~drags[i].click

\* C11: a call of autocenter, zoomToSVGCoords, zoomToSVGBox or
\* adjustZoomRelativeToScreenPoint while the container reference is absent
\* returns without failing and leaves the state unchanged.
ContainerOps == {"autocenter", "zoomToSVGCoords", "zoomToSVGBox",
                 "adjustZoomRelativeToScreenPoint"}
C11_NoOpWithoutContainer ==
  (phase # "mounted" /\ last.op \in ContainerOps) =>
    (~last.threw /\ state = last.pre)

\* C12: getMaxZoom() returns the maxZoom the host supplied, and 1.2 when the
\* host supplied none.
C12_GetMaxZoomDefault ==
  getMaxZoom(props) =
    IF props.hostMaxZoom = None THEN DEFAULT_MAX_ZOOM ELSE props.hostMaxZoom

\* C13: getMinZoom() is min(0.17, min(containerWidth/graphWidth,
\* containerHeight/graphHeight)) when graphHasNoMinimumZoom is set and 0.17
\* otherwise, for every positive content and container size.  The value is
\* read from the zoom slider's min, which render() sets to getMinZoom(), and
\* compared with the three candidates by cross-multiplication.
C13_GetMinZoom ==
  (phase = "mounted" /\ props.interactor = "PanAndZoom") =>
    LET n == rendering.sliderMin[1]
        d == rendering.sliderMin[2]
    IN  /\ d > 0
        /\ IF props.graphHasNoMinimumZoom
           THEN /\ n * 100 <= 17 * d
                /\ n * props.graphWidth <= props.width * d
                /\ n * props.graphHeight <= props.height * d
                /\ \/ n * 100 = 17 * d
                   \/ n * props.graphWidth = props.width * d
                   \/ n * props.graphHeight = props.height * d
           ELSE n * 100 = 17 * d

C13_Witness ==
  /\ phase = "mounted" /\ props.graphHasNoMinimumZoom
  /\ last.op = "zoomout"
  /\ rendering.sliderMin[1] * props.graphHeight = props.height * rendering.sliderMin[2]
  /\ rendering.sliderMin[1] * props.graphWidth < props.width * rendering.sliderMin[2]
  /\ rendering.sliderMin[1] * 100 < 17 * rendering.sliderMin[2]

\* C14: for every state and screen point P, the render transform (the matrix
\* of render(): world * scale + (x, y)) applied to screenToSVGCoords(P) gives
\* back P.  screenToSVGCoords is applied by every zoom operation to its
\* anchor point.
C14_ScreenToSVGRoundTrip ==
  (last.op \in ZoomOps /\ last.applied) =>
    renderTransform(render(props, "mounted", last.pre).transform, last.retPt) = last.pt

C14_Witness ==
  /\ last.op = "adjustZoomRelativeToScreenPoint" /\ last.applied
  /\ last.pt = Pt(40, 30)
  /\ last.pre.x # Zero /\ last.pre.scale # One
  /\ last.retPt.x # last.pt.x /\ last.retPt.y # last.pt.y

\* C15: zoomToSVGCoords(x, y, false, scale) ends with state.scale equal to the
\* given scale (the current scale when omitted) clamped to [getMinZoom(),
\* getMaxZoom()] and with the centre of the container mapping to the world
\* point (x, y); the animated form is in that state when its animation
\* completes.
C15_Clamped(s) ==
  IF Lt(s, getMinZoom(props)) THEN getMinZoom(props)
  ELSE IF Lt(getMaxZoom(props), s) THEN getMaxZoom(props) ELSE s

C15_ZoomToSVGCoordsCentres ==
  /\ (last.op = "zoomToSVGCoords" /\ ~last.animate /\ phase = "mounted") =>
       /\ state.scale = C15_Clamped(IF last.scale = None THEN last.pre.scale ELSE last.scale)
       /\ screenToSVGCoords(props, state, Centre) = last.pt
  /\ (last.op = "done" /\ phase = "mounted"
        /\ anims[last.id].hBy.op = "zoomToSVGCoords") =>
       /\ state.scale = C15_Clamped(anims[last.id].hBy.scale)
       /\ screenToSVGCoords(props, state, Centre) = anims[last.id].hBy.pt

C15_Witness ==
  /\ last.op = "done" /\ phase = "mounted"
  /\ anims[last.id].hBy.op = "zoomToSVGCoords"
  /\ Lt(state.scale, anims[last.id].hBy.scale)
  /\ XYS(state) # XYS(last.pre)
  /\ last.pre.x # Zero

\* C16: the export passes the region {top: 0, left: 0, right: graphWidth,
\* bottom: graphHeight} to the content callback whatever x, y and scale are,
\* and leaves the viewport state unchanged.
C16_ExportWholeContent ==
  last.op = "export" =>
    /\ last.retBox = [top |-> Zero, left |-> Zero, right |-> Int2R(props.graphWidth),
                      bottom |-> Int2R(props.graphHeight)]
    /\ state = last.pre
    /\ rendering = render(props, phase, last.pre)

C16_Witness ==
  /\ last.op = "export"
  /\ state.x # Zero /\ state.scale = getMaxZoom(props)
  /\ getViewport(props, phase, state) # last.retBox
  /\ Lt(Zero, getViewport(props, phase, state).left)

\* C17: after an autocenter call that takes effect, animated or not (for the
\* animated form once its animation has completed), state.minScale equals the
\* scale that autocenter targeted.
C17_MinScaleAfterAutocenter ==
  /\ (last.op = "autocenter" /\ last.applied /\ ~last.animate) =>
       state.minScale = autocenterBoundedScale(props, last.scale)
  /\ (last.op = "done" /\ phase = "mounted" /\ anims[last.id].hBy.op = "autocenter") =>
       state.minScale = anims[last.id].hBy.scale

\* C18: cancelAnimations() changes neither the viewport state nor the handle;
\* called when no animation is active, after the animation has completed, or
\* again on a cancelled animation it leaves the set of running animations as
\* it was; and after a cancel no step or done callback of the cancelled
\* animation writes to the state.
C18_CancelIdempotent ==
  /\ last.op = "cancelAnimations" =>
       /\ state = last.pre /\ animation = last.preAnimation
       /\ (last.preAnimation = 0 \/ last.preAnimation \notin last.running)
            => Running = last.running
  /\ \A i \in DOMAIN anims : anims[i].hCancel => ~Wrote(i)

\* C19: the region render() passes to the content callback is the inverse
\* transform of the container's screen rectangle under the current state:
\* (left, top) = screenToSVGCoords((0, 0)) and (right, bottom) =
\* screenToSVGCoords((width, height)), after every state change.
C19_ViewportIsInverseOfContainer ==
  phase = "mounted" =>
    /\ [x |-> rendering.viewport.left, y |-> rendering.viewport.top]
         = screenToSVGCoords(props, state, Pt(0, 0))
    /\ [x |-> rendering.viewport.right, y |-> rendering.viewport.bottom]
         = screenToSVGCoords(props, state, Pt(props.width, props.height))

C19_Witness ==
  /\ phase = "mounted" /\ last.op = "wheel" /\ last.applied
  /\ state.scale # last.pre.scale /\ state.scale # One
  /\ rendering.viewport # getViewport(props, phase, last.pre)
  /\ rendering.viewport.left # Zero

\* C20: in the pan-and-zoom interactor a wheel event without meta/ctrl and
\* outside the zoom control never changes the scale: with shift held and no
\* horizontal delta it moves x by the vertical delta times 0.7 and leaves y,
\* otherwise it moves x and y against the wheel deltas times 0.7.  With
\* meta/ctrl or from the zoom control it sets a scale within [getMinZoom(),
\* getMaxZoom()] and keeps the world point under the cursor (the centre of
\* the container for the zoom control) where it was.
C20_WheelPansOrZooms ==
  (last.op = "wheel" /\ props.interactor = "PanAndZoom") =>
    IF last.applied
    THEN /\ Le(getMinZoom(props), state.scale) /\ Le(state.scale, getMaxZoom(props))
         /\ last.inZoomControl => last.pt = Centre
         /\ screenToSVGCoords(props, state, last.pt)
              = screenToSVGCoords(props, last.pre, last.pt)
         /\ state.minScale = last.pre.minScale
    ELSE /\ state.scale = last.pre.scale
         /\ state.minScale = last.pre.minScale
         /\ IF last.shiftKey /\ last.deltaX = 0
            THEN /\ state.x = Add(last.pre.x, Rat(7 * last.deltaY, 10))
                 /\ state.y = last.pre.y
            ELSE /\ state.x = Sub(last.pre.x, Rat(7 * last.deltaX, 10))
                 /\ state.y = Sub(last.pre.y, Rat(7 * last.deltaY, 10))

C20_Witness ==
  /\ last.op = "wheel" /\ props.interactor = "PanAndZoom" /\ ~last.applied
  /\ last.shiftKey /\ last.deltaX = 0
  /\ state.x # last.pre.x
  /\ last.pre.scale # DETAIL_ZOOM /\ last.pre.scale # One

\* a number with at most 2 decimal places
TwoDecimals(a) == (100 * a[1]) % a[2] = 0

\* C21: the zoom-in button sets the scale to the earlier scale plus 0.05,
\* limited to getMaxZoom(), and the zoom-out button to the earlier scale minus
\* 0.05, limited to getMinZoom(); the scale each of them sets is rounded to 2
\* decimal places.
C21_ButtonsStepAndRound ==
  /\ last.op = "zoomin" =>
       /\ state.scale = Round2(RMin(getMaxZoom(props), Add(last.pre.scale, BUTTON_INCREMENT)))
       /\ TwoDecimals(state.scale)
  /\ last.op = "zoomout" =>
       /\ state.scale = Round2(RMax(getMinZoom(props), Sub(last.pre.scale, BUTTON_INCREMENT)))
       /\ TwoDecimals(state.scale)

\* C22: the hint is visible only after a wheel event without a modifier key,
\* for less than 2 seconds without a wheel event (the timer's callback is due
\* at 2 seconds) and until a wheel event with a modifier key; once a wheel
\* event with a modifier key has reached the tooltip, the hint is never
\* visible again, whatever wheel events follow.
C22_HintWindow ==
  /\ tooltipVisible(props, phase, tooltip) =>
        /\ tooltip.lastWheel = "plain"
        /\ tooltip.idle < HintSeconds \/ tooltip.timeout = 0
  /\ tooltip.modSeen => ~tooltipVisible(props, phase, tooltip)

C22_Witness ==
  /\ tooltipMounted(props, phase)
  /\ tooltip.modSeen /\ tooltip.lastWheel = "plain" /\ tooltip.idle = 1
  /\ tooltip.wheeling /\ tooltip.timeout = 1
  /\ ~tooltipVisible(props, phase, tooltip)

(***************************************************************************)
(* The tooltip alone: wheel events inside and outside the container, and   *)
(* the passing of time.                                                    *)
(***************************************************************************)
InitHint == InitWith(MaxHintSteps)

NextHint ==
  \/ componentDidMount
  \/ componentWillUnmount
  \/ \E e \in WheelEvents \cup ShiftedWheelEvents : Wheel(e)
  \/ \E e \in OutsideWheelEvents : WheelOutside(e)
  \/ Elapse
  \/ TooltipTimeout

SpecHint == InitHint /\ [][NextHint]_vars

(***************************************************************************)
(* The viewport with the inert interactor: pointer and wheel events while  *)
(* the host's autocenter animations run.                                   *)
(***************************************************************************)
InertConfigs == {c \in Configs : c.interactor = "None"}

InitInert == InitOf(InertConfigs, MaxInertSteps)

NextInert ==
  \/ componentDidMount
  \/ componentWillUnmount
  \/ \E animate \in BOOLEAN, scale \in AutocenterScales : Autocenter(animate, scale)
  \/ \E i \in DOMAIN anims : AnimStep(i)
  \/ \E i \in DOMAIN anims : AnimLastFrame(i)
  \/ \E i \in DOMAIN anims : AnimDone(i)
  \/ \E pt \in ScreenPoints, inSlider \in BOOLEAN : MouseDown(pt, inSlider)
  \/ \E e \in WheelEvents \cup ShiftedWheelEvents : Wheel(e)

SpecInert == InitInert /\ [][NextInert]_vars

\* C23: with the inert interactor a mouse-down or a wheel event leaves x, y,
\* scale, minScale and isClickHeld as they were, adds no document listener
\* of a drag, and neither starts nor cancels an animation.
C23_InertChangesNothing ==
  (props.interactor = "None" /\ last.op \in {"mousedown", "wheel"}) =>
    /\ state = last.pre
    /\ drags = <<>>
    /\ animation = last.preAnimation
    /\ Running = last.running
    /\ \A i \in DOMAIN anims : ~anims[i].hCancel

C23_Witness ==
  /\ props.interactor = "None" /\ last.op = "wheel"
  /\ last.running # {} /\ animation # 0
  /\ state.scale # DETAIL_ZOOM /\ state.x # Zero

\* a drag is in progress: the mousemove and mouseup listeners of an
\* onMouseDown closure are on the document
Dragging == \E i \in DOMAIN drags : drags[i].moveUp

\* C24: in the pan-and-zoom interactor, while the viewport is not unmounted,
\* isClickHeld is true exactly while the mousemove and mouseup listeners of a
\* drag are attached: a mouse-down that starts a drag sets it, one inside
\* the zoom slider leaves it, a mouse-up clears it also after overlapping
\* mouse-downs; and setting it leaves x, y and scale as they were.
C24_ClickHeldWhileDragging ==
  props.interactor = "PanAndZoom" =>
    /\ phase # "unmounted" => (state.isClickHeld <=> Dragging)
    /\ (phase = "mounted" /\ last.op = "mousedown") =>
         /\ state.isClickHeld = (last.applied \/ last.pre.isClickHeld)
         /\ state.x = last.pre.x /\ state.y = last.pre.y
         /\ state.scale = last.pre.scale
    /\ (phase = "mounted" /\ last.op = "mouseup") =>
         /\ ~state.isClickHeld /\ last.pre.isClickHeld
         /\ state.x = last.pre.x /\ state.y = last.pre.y
         /\ state.scale = last.pre.scale

\* a mouse-up after two overlapping mouse-downs and a move
C24_Witness ==
  /\ props.interactor = "PanAndZoom" /\ phase = "mounted"
  /\ last.op = "mouseup" /\ last.pre.isClickHeld /\ ~state.isClickHeld
  /\ Len(drags) = 2 /\ ~Dragging
  /\ drags[1].travelX # Zero

\* the closures whose mousemove and mouseup listeners are attached
Attached == {i \in DOMAIN drags : drags[i].moveUp}

\* C25: during a drag with no other drag's listeners attached and nothing
\* else changing the state, after any number of mousemove events x and y have
\* moved from their values at the mouse-down by the pointer's position minus
\* its position at the mouse-down, and the scale is the one at the mouse-down.
C25_DragFollowsPointer ==
  (phase = "mounted" /\ Cardinality(Attached) = 1) =>
    \A i \in Attached :
      /\ Sub(state.x, drags[i].from.x) = Sub(drags[i].lastX, drags[i].start.x)
      /\ Sub(state.y, drags[i].from.y) = Sub(drags[i].lastY, drags[i].start.y)
      /\ state.scale = drags[i].from.scale

\* three mousemove events into a drag, one of them backwards, at a scale other than 1
C25_Witness ==
  /\ phase = "mounted" /\ Cardinality(Attached) = 1
  /\ last.op = "mousemove" /\ last.pre.x # state.x
  /\ \A i \in Attached :
        /\ drags[i].lastX = Int2R(10) /\ drags[i].travelX = Int2R(24)
        /\ state.x = Add(drags[i].from.x, Int2R(10))
        /\ state.scale # One

====
